---- MODULE Spec2Model ----
(***************************************************************************)
(* State-machine model of RenderArea2D (src/src/lib.rs): a virtual 2D      *)
(* render surface with a camera, an integer display scale and the host     *)
(* renderer (macroquad) state it reads and writes: window size, pointer    *)
(* position and the process-wide active-camera slot.                       *)
(*                                                                         *)
(* f32 values are modelled as extended rationals <<n, d>>:                 *)
(*   d > 0  : the finite value n/d in lowest terms,                        *)
(*   <<1,0>>, <<-1,0>> : +infinity and -infinity,  <<0,0>> : NaN.          *)
(* Arithmetic on them is exact.  For the magnitudes explored here          *)
(* (integers and half-integers far below 2^24) f32 addition, subtraction,  *)
(* multiplication and halving are exact as well, and truncating a          *)
(* correctly rounded quotient of two such integers gives the truncation    *)
(* of the exact quotient, so the model agrees with the code on every       *)
(* value except the last-bit rounding of a quotient such as 1/3.           *)
(***************************************************************************)
EXTENDS Integers, Sequences, FiniteSets

VARIABLES
    render_target,   \* RenderArea2D.render_target: the off-screen texture
    width,           \* RenderArea2D.width  : u16
    height,          \* RenderArea2D.height : u16
    scale,           \* RenderArea2D.scale  : u8
    camera,          \* RenderArea2D.camera : Camera2D
    screen_width,    \* host: screen_width()  : f32
    screen_height,   \* host: screen_height() : f32
    mouse,           \* host: mouse_position() : (f32, f32)
    active_camera,   \* host: the active-camera slot; <<>> is the default camera
    ctor,            \* history: the arguments new was called with
    centered,        \* history: the arguments of the last center_camera, <<>> if none
    deltas,          \* history: the move_camera arguments applied since then
    last             \* history: the last call, its arguments, what it returned or emitted

vars == <<render_target, width, height, scale, camera, screen_width,
          screen_height, mouse, active_camera, ctor, centered, deltas, last>>

area == <<render_target, width, height, scale, camera>>
host == <<screen_width, screen_height, mouse, active_camera>>
history == <<ctor, centered, deltas>>

-----------------------------------------------------------------------------
(* Bounds of the explored input space *)

MaxDim == 2
MaxWin == 3
MaxScaleArg == 2
MaxMoves == 2

(* Program constants *)

U8Max == 255
CenterBias == 16

-----------------------------------------------------------------------------
(* f32 arithmetic *)

Abs(n) == IF n < 0 THEN 0 - n ELSE n

RECURSIVE GCD(_, _)
GCD(a, b) == IF b = 0 THEN a ELSE GCD(b, a % b)

Rat(n, d) ==
    LET g == GCD(Abs(n), Abs(d))
        s == IF d < 0 THEN 0 - 1 ELSE 1
    IN  IF g = 0 THEN <<0, 0>> ELSE <<s * (n \div g), s * (d \div g)>>

F(n) == <<n, 1>>
NaN == <<0, 0>>
IsFinite(a) == a[2] > 0
IsNaN(a) == a = NaN

FNeg(a) == <<0 - a[1], a[2]>>

FAdd(a, b) ==
    IF IsFinite(a) /\ IsFinite(b) THEN Rat(a[1] * b[2] + b[1] * a[2], a[2] * b[2])
    ELSE IF IsNaN(a) \/ IsNaN(b) THEN NaN
    ELSE IF IsFinite(b) THEN a
    ELSE IF IsFinite(a) THEN b
    ELSE IF a = b THEN a ELSE NaN

FSub(a, b) == FAdd(a, FNeg(b))

FMul(a, b) ==
    IF IsFinite(a) /\ IsFinite(b) THEN Rat(a[1] * b[1], a[2] * b[2])
    ELSE IF IsNaN(a) \/ IsNaN(b) \/ a[1] = 0 \/ b[1] = 0 THEN NaN
    ELSE IF (a[1] > 0) = (b[1] > 0) THEN <<1, 0>> ELSE <<0 - 1, 0>>

\* x / 0 is +-infinity, 0 / 0 is NaN, as IEEE 754 division gives.
FDiv(a, b) ==
    IF IsFinite(a) /\ IsFinite(b)
    THEN IF b[1] = 0
         THEN (IF a[1] = 0 THEN NaN ELSE IF a[1] > 0 THEN <<1, 0>> ELSE <<0 - 1, 0>>)
         ELSE Rat(a[1] * b[2], a[2] * b[1])
    ELSE IF IsNaN(a) \/ IsNaN(b) \/ ~IsFinite(b) THEN NaN
    ELSE IF b[1] >= 0 THEN a ELSE FNeg(a)

\* a < b; false when either side is NaN.
FLt(a, b) ==
    IF IsNaN(a) \/ IsNaN(b) THEN FALSE
    ELSE IF IsFinite(a) /\ IsFinite(b) THEN a[1] * b[2] < b[1] * a[2]
    ELSE IF ~IsFinite(a) /\ ~IsFinite(b) THEN a[1] < b[1]
    ELSE IF IsFinite(a) THEN b[1] > 0
    ELSE a[1] < 0

FLe(a, b) == ~IsNaN(a) /\ ~IsNaN(b) /\ ~FLt(b, a)

\* `f as u8`: truncates toward zero and saturates; NaN gives 0.
AsU8(a) ==
    IF IsNaN(a) THEN 0
    ELSE IF ~IsFinite(a) THEN (IF a[1] > 0 THEN U8Max ELSE 0)
    ELSE IF a[1] <= 0 THEN 0
    ELSE IF a[1] \div a[2] > U8Max THEN U8Max
    ELSE a[1] \div a[2]

vec2(x, y) == <<x, y>>
VAdd(u, v) == <<FAdd(u[1], v[1]), FAdd(u[2], v[2])>>
VSub(u, v) == <<FSub(u[1], v[1]), FSub(u[2], v[2])>>

-----------------------------------------------------------------------------
(* Pure functions of the render area *)

target(w, h) == vec2(FDiv(F(w), F(2)), FDiv(F(h), F(2)))

\* mutant: the cast wraps modulo 256 instead of saturating
auto_scale_wrapping ==
    LET hor_ratio == FDiv(screen_width, F(width))
        ver_ratio == FDiv(screen_height, F(height))
        m == IF FLt(hor_ratio, ver_ratio) THEN hor_ratio ELSE ver_ratio
    IN  IF IsFinite(m) /\ m[1] > 0 THEN (m[1] \div m[2]) % (U8Max + 1) ELSE 0

\* mutant: the comparison is inverted, so the larger ratio is taken
auto_scale_larger_ratio ==
    LET hor_ratio == FDiv(screen_width, F(width))
        ver_ratio == FDiv(screen_height, F(height))
    IN  AsU8(IF FLt(ver_ratio, hor_ratio) THEN hor_ratio ELSE ver_ratio)

auto_scale ==
    LET hor_ratio == FDiv(screen_width, F(width))
        ver_ratio == FDiv(screen_height, F(height))
    IN  AsU8(IF FLt(hor_ratio, ver_ratio) THEN hor_ratio ELSE ver_ratio)

\* mutant: the margin is not halved
screen_offset_unhalved ==
    <<FSub(screen_width, FMul(F(width), F(scale))),
      FSub(screen_height, FMul(F(height), F(scale)))>>

screen_offset ==
    <<FDiv(FSub(screen_width, FMul(F(width), F(scale))), F(2)),
      FDiv(FSub(screen_height, FMul(F(height), F(scale))), F(2))>>

\* mutant: the letterbox offset is not subtracted
mouse_position_no_offset ==
    <<FDiv(mouse[1], F(scale)), FDiv(mouse[2], F(scale))>>

mouse_position ==
    LET mx == mouse[1]
        my == mouse[2]
        x_off == screen_offset[1]
        y_off == screen_offset[2]
    IN  <<FDiv(FSub(mx, x_off), F(scale)), FDiv(FSub(my, y_off), F(scale))>>

\* mutant: the camera target is added without taking the surface centre off
mouse_position_cam_absolute ==
    <<FAdd(mouse_position[1], camera.target[1]),
      FAdd(mouse_position[2], camera.target[2])>>

mouse_position_cam ==
    LET mx == mouse_position[1]
        my == mouse_position[2]
        offs == VSub(camera.target, target(width, height))
    IN  <<FAdd(mx, offs[1]), FAdd(my, offs[2])>>

Call(op, args, ret) == [op |-> op, args |-> args, ret |-> ret]

-----------------------------------------------------------------------------
(* Input domains *)

SmallDims == {<<w, h>> : w \in 1..MaxDim, h \in 1..MaxDim}
ScenarioDims == {<<400, 300>>, <<3, 2>>}

ScenarioWindows == {<<F(800), F(600)>>, <<F(1000), F(600)>>, <<F(800), F(700)>>,
                    <<F(7), F(5)>>, <<F(2), F(2)>>}
SmallWindows == {<<F(w), F(h)>> : w \in 0..MaxWin, h \in 0..MaxWin}
\* window extents around the point where the fit ratio passes the u8 range
WideExtents == (0..MaxWin) \cup {U8Max * w : w \in 1..MaxDim}
                             \cup {(U8Max + 1) * w : w \in 1..MaxDim}
WideWindows == {<<F(w), F(h)>> : w \in WideExtents, h \in WideExtents}

ScaleArgs == (0..MaxScaleArg) \cup {U8Max}

ScenarioPointers == {<<F(400), F(300)>>, <<F(0), F(0)>>, <<F(5), F(3)>>}
HalfSteps == {Rat(k, 2) : k \in 0..(2 * MaxWin)}
SmallPointers == {<<x, y>> : x \in HalfSteps, y \in HalfSteps}

MoveArgs == {<<F(0), F(0)>>, <<F(10), F(0 - 5)>>}
CenterArgs == {<<F(0), F(0)>>}

-----------------------------------------------------------------------------
(* Construction *)

mq_render_target(w, h) == [width |-> w, height |-> h, filter |-> "Nearest"]

\* mutant: the constructor leaves the scale at its initial 0
new_without_fit(w, h) ==
    /\ render_target = mq_render_target(w, h)
    /\ width = w
    /\ height = h
    /\ camera = [render_target |-> <<mq_render_target(w, h)>>,
                 zoom |-> vec2(FDiv(F(2), F(w)), FDiv(F(2), F(h))),
                 target |-> target(w, h),
                 rotation |-> F(0)]
    /\ scale = 0
    /\ ctor = <<w, h>>
    /\ centered = <<>>
    /\ deltas = <<>>
    /\ last = Call("new", <<w, h>>, <<>>)

new(w, h) ==
    /\ render_target = mq_render_target(w, h)
    /\ width = w
    /\ height = h
    /\ camera = [render_target |-> <<mq_render_target(w, h)>>,
                 zoom |-> vec2(FDiv(F(2), F(w)), FDiv(F(2), F(h))),
                 target |-> target(w, h),
                 rotation |-> F(0)]
    /\ scale = auto_scale
    /\ ctor = <<w, h>>
    /\ centered = <<>>
    /\ deltas = <<>>
    /\ last = Call("new", <<w, h>>, <<>>)

HostInit(win, ptr) ==
    /\ screen_width = win[1]
    /\ screen_height = win[2]
    /\ mouse = ptr
    /\ active_camera = <<>>

Init ==
    \E d \in ScenarioDims, win \in ScenarioWindows, ptr \in ScenarioPointers :
        /\ HostInit(win, ptr)
        /\ new(d[1], d[2])

-----------------------------------------------------------------------------
(* Operations of the render area *)

set ==
    /\ active_camera' = <<camera>>
    /\ last' = Call("set", <<>>, <<>>)
    /\ UNCHANGED <<area, screen_width, screen_height, mouse, history>>

\* mutant: the amount is clamped to the fit value
set_scale_clamped(amount) ==
    /\ scale' = (IF amount > auto_scale THEN auto_scale ELSE amount)
    /\ last' = Call("set_scale", <<amount>>, <<>>)
    /\ UNCHANGED <<render_target, width, height, camera, host, history>>

set_scale(amount) ==
    /\ scale' = amount
    /\ last' = Call("set_scale", <<amount>>, <<>>)
    /\ UNCHANGED <<render_target, width, height, camera, host, history>>

set_scale_auto ==
    /\ scale' = auto_scale
    /\ last' = Call("set_scale_auto", <<>>, <<>>)
    /\ UNCHANGED <<render_target, width, height, camera, host, history>>

call_auto_scale ==
    /\ last' = Call("auto_scale", <<>>, <<auto_scale>>)
    /\ UNCHANGED <<area, host, history>>

call_scale ==
    /\ last' = Call("scale", <<>>, <<scale>>)
    /\ UNCHANGED <<area, host, history>>

\* mutant: the blit switches to the default camera itself
draw_restoring_default ==
    /\ last' = Call("draw", <<>>,
                    <<[texture |-> render_target, x |-> screen_offset[1],
                       y |-> screen_offset[2], color |-> "WHITE",
                       dest_size |-> <<vec2(FMul(F(width), F(scale)),
                                            FMul(F(height), F(scale)))>>]>>)
    /\ active_camera' = <<>>
    /\ UNCHANGED <<area, screen_width, screen_height, mouse, history>>

draw ==
    LET params == [dest_size |-> <<vec2(FMul(F(width), F(scale)),
                                         FMul(F(height), F(scale)))>>]
        x_off == screen_offset[1]
        y_off == screen_offset[2]
    IN  /\ last' = Call("draw", <<>>,
                        <<[texture |-> render_target, x |-> x_off, y |-> y_off,
                           color |-> "WHITE", dest_size |-> params.dest_size]>>)
        /\ UNCHANGED <<area, host, history>>

call_mouse_position ==
    /\ last' = Call("mouse_position", <<>>, <<mouse_position>>)
    /\ UNCHANGED <<area, host, history>>

call_mouse_position_cam ==
    /\ last' = Call("mouse_position_cam", <<>>, <<mouse_position_cam>>)
    /\ UNCHANGED <<area, host, history>>

\* mutant: the translation is applied to the zoom as well
move_camera_zooming(x, y) ==
    /\ Len(deltas) < MaxMoves
    /\ camera' = [camera EXCEPT !.target = VAdd(camera.target, vec2(x, y)),
                                !.zoom = VAdd(camera.zoom, vec2(x, y))]
    /\ deltas' = Append(deltas, <<x, y>>)
    /\ last' = Call("move_camera", <<x, y>>, <<>>)
    /\ UNCHANGED <<render_target, width, height, scale, host, ctor, centered>>

move_camera(x, y) ==
    /\ Len(deltas) < MaxMoves
    /\ camera' = [camera EXCEPT !.target = VAdd(camera.target, vec2(x, y))]
    /\ deltas' = Append(deltas, <<x, y>>)
    /\ last' = Call("move_camera", <<x, y>>, <<>>)
    /\ UNCHANGED <<render_target, width, height, scale, host, ctor, centered>>

\* mutant: the camera is centred on (x, y) without the bias
center_camera_unbiased(x, y) ==
    /\ camera' = [camera EXCEPT !.target = vec2(x, y)]
    /\ centered' = <<x, y>>
    /\ deltas' = <<>>
    /\ last' = Call("center_camera", <<x, y>>, <<>>)
    /\ UNCHANGED <<render_target, width, height, scale, host, ctor>>

center_camera(x, y) ==
    /\ camera' = [camera EXCEPT
                    !.target = vec2(FAdd(x, F(CenterBias)), FAdd(y, F(CenterBias)))]
    /\ centered' = <<x, y>>
    /\ deltas' = <<>>
    /\ last' = Call("center_camera", <<x, y>>, <<>>)
    /\ UNCHANGED <<render_target, width, height, scale, host, ctor>>

-----------------------------------------------------------------------------
(* Steps of the host and of the caller *)

set_default_camera ==
    /\ active_camera' = <<>>
    /\ last' = Call("set_default_camera", <<>>, <<>>)
    /\ UNCHANGED <<area, screen_width, screen_height, mouse, history>>

Resize(win) ==
    /\ screen_width' = win[1]
    /\ screen_height' = win[2]
    /\ last' = Call("resize", win, <<>>)
    /\ UNCHANGED <<area, mouse, active_camera, history>>

MovePointer(ptr) ==
    /\ mouse' = ptr
    /\ last' = Call("pointer", ptr, <<>>)
    /\ UNCHANGED <<area, screen_width, screen_height, active_camera, history>>

-----------------------------------------------------------------------------
(* The render area's life: every public operation, interleaved with window *)
(* resizes, pointer moves and the caller's restore of the default camera.  *)

Next ==
    \/ set
    \/ \E k \in ScaleArgs : set_scale(k)
    \/ set_scale_auto
    \/ call_auto_scale
    \/ call_scale
    \/ draw
    \/ call_mouse_position
    \/ call_mouse_position_cam
    \/ \E d \in MoveArgs : move_camera(d[1], d[2])
    \/ \E c \in CenterArgs : center_camera(c[1], c[2])
    \/ set_default_camera
    \/ \E win \in ScenarioWindows : Resize(win)
    \/ \E ptr \in ScenarioPointers : MovePointer(ptr)

Spec == Init /\ [][Next]_vars

-----------------------------------------------------------------------------
(* auto_scale as a function of the virtual size and the window size: small *)
(* virtual sizes, windows from empty up to past the u8 range of the ratio. *)

InitScale ==
    \E d \in SmallDims, win \in WideWindows :
        /\ HostInit(win, <<F(0), F(0)>>)
        /\ new(d[1], d[2])

NextScale ==
    \/ \E win \in WideWindows : Resize(win)
    \/ call_auto_scale
    \/ set_scale_auto
    \/ call_scale

SpecScale == InitScale /\ [][NextScale]_vars

-----------------------------------------------------------------------------
(* The pointer translation over every small virtual size, window size,     *)
(* pointer position (in half device pixels) and stored scale.              *)

InitPointer ==
    \E d \in SmallDims, win \in SmallWindows, ptr \in SmallPointers :
        /\ HostInit(win, ptr)
        /\ new(d[1], d[2])

NextPointer ==
    \/ \E k \in ScaleArgs : set_scale(k)
    \/ set_scale_auto
    \/ \E c \in CenterArgs : center_camera(c[1], c[2])
    \/ call_mouse_position
    \/ call_mouse_position_cam

SpecPointer == InitPointer /\ [][NextPointer]_vars

-----------------------------------------------------------------------------
(* Vocabulary of the properties *)

Ret == last.ret[1]
Half(n) == Rat(n, 2)
Default == <<Half(ctor[1]), Half(ctor[2])>>

\* k <= min(Ww / W, Wh / H), by cross-multiplication
FitsAt(k) ==
    /\ k * width * screen_width[2] <= screen_width[1]
    /\ k * height * screen_height[2] <= screen_height[1]

RECURSIVE SumFrom(_, _)
SumFrom(p, ds) ==
    IF ds = <<>> THEN p
    ELSE SumFrom(<<FAdd(p[1], Head(ds)[1]), FAdd(p[2], Head(ds)[2])>>, Tail(ds))

Within(a, b, tol) == FLe(FSub(a, b), tol) /\ FLe(FSub(b, a), tol)

-----------------------------------------------------------------------------
(* C1 *)

\* C1 as stated: auto_scale() is the floor of min(Ww/W, Wh/H) for every
\* window, also those where the minimum is 256 or more.
C1_AutoScaleIsFloor ==
    last.op = "auto_scale" => FitsAt(Ret) /\ ~FitsAt(Ret + 1)

\* C1 as amended: auto_scale() is the floor of min(Ww/W, Wh/H) while that
\* floor is at most 255, and 255 for every window where the minimum is 256
\* or more.
C1_AutoScaleIsSaturatedFloor ==
    last.op = "auto_scale" =>
        IF FitsAt(U8Max + 1) THEN Ret = U8Max
        ELSE FitsAt(Ret) /\ ~FitsAt(Ret + 1)

C1_Witness ==
    /\ last.op = "auto_scale"
    /\ FitsAt(U8Max + 1)
    /\ Ret = U8Max

-----------------------------------------------------------------------------
(* C2 *)

\* C2: auto_scale() >= 1 exactly when Ww >= W and Wh >= H, and it is 0
\* whenever the window is smaller than the virtual surface in a dimension.
C2_AutoScalePositiveIffFits ==
    last.op = "auto_scale" =>
        /\ (Ret >= 1) <=> (FLe(F(width), screen_width) /\ FLe(F(height), screen_height))
        /\ (FLt(screen_width, F(width)) \/ FLt(screen_height, F(height))) => Ret = 0

C2_Witness ==
    /\ last.op = "auto_scale"
    /\ FLt(screen_width, F(width))
    /\ FLe(F(height + 1), screen_height)
    /\ Ret = 0

-----------------------------------------------------------------------------
(* C3 *)

\* C3: right after construct(W, H) the scale is the auto-fit value for the
\* window, camera.target is (W/2, H/2) and camera.zoom is (2/W, 2/H);
\* 400x300 in an 800x600 window gives scale 2 and target (200, 150).
C3_ConstructDefaults ==
    last.op = "new" =>
        LET W == last.args[1]
            H == last.args[2]
        IN  /\ scale = auto_scale
            /\ (IF FitsAt(U8Max + 1) THEN scale = U8Max
                ELSE FitsAt(scale) /\ ~FitsAt(scale + 1))
            /\ camera.target = <<Half(W), Half(H)>>
            /\ camera.zoom = <<Rat(2, W), Rat(2, H)>>
            /\ (W = 400 /\ H = 300 /\ screen_width = F(800) /\ screen_height = F(600)
                  => scale = 2 /\ camera.target = <<F(200), F(150)>>)

C3_Witness ==
    /\ last.op = "new"
    /\ last.args = <<400, 300>>
    /\ screen_width = F(800) /\ screen_height = F(600)
    /\ scale = 2
    /\ camera.target = <<F(200), F(150)>>

-----------------------------------------------------------------------------
(* C4 *)

\* C4: for every stored scale s and current window, blit emits exactly one
\* rectangle of size (W*s, H*s) whose top-left is ((Ww - W*s)/2,
\* (Wh - H*s)/2): equal left/right and top/bottom margins, negative when
\* the rectangle overflows; 400x300 at scale 2 in 1000x600 has offset (100, 0).
C4_BlitCentered ==
    last.op = "draw" =>
        /\ Len(last.ret) = 1
        /\ LET q == Ret
               w == q.dest_size[1][1]
               h == q.dest_size[1][2]
           IN  /\ Len(q.dest_size) = 1
               /\ w = F(width * scale) /\ h = F(height * scale)
               /\ q.x = FDiv(FSub(screen_width, F(width * scale)), F(2))
               /\ q.y = FDiv(FSub(screen_height, F(height * scale)), F(2))
               /\ FSub(screen_width, FAdd(q.x, w)) = q.x
               /\ FSub(screen_height, FAdd(q.y, h)) = q.y
               /\ FLt(screen_width, w) => FLt(q.x, F(0))
               /\ FLt(screen_height, h) => FLt(q.y, F(0))
               /\ (width = 400 /\ height = 300 /\ scale = 2
                   /\ screen_width = F(1000) /\ screen_height = F(600))
                     => q.x = F(100) /\ q.y = F(0)

C4_Witness ==
    /\ last.op = "draw"
    /\ scale > auto_scale
    /\ last.ret[1].x = Rat(0 - 1, 2)
    /\ last.ret[1].y = F(0)
    /\ last.ret[1].dest_size = <<(<<F(3), F(2)>>)>>

-----------------------------------------------------------------------------
(* C5 *)

\* C5: for s >= 1, a pointer at the window position of virtual pixel
\* (vx, vy), that is at (x_off + vx*s, y_off + vy*s), is reported by
\* pointer_position_screen() within 1/s of (vx, vy), whatever the camera
\* target.  Stated per coordinate, which implies the statement for pairs.
C5_PointerInversionScreen ==
    (last.op = "mouse_position" /\ scale >= 1) =>
        LET x_off == Rat(screen_width[1] - width * scale * screen_width[2],
                         2 * screen_width[2])
            y_off == Rat(screen_height[1] - height * scale * screen_height[2],
                         2 * screen_height[2])
        IN  /\ \A vx \in 0..(width - 1) :
                  mouse[1] = FAdd(x_off, F(vx * scale))
                      => Within(Ret[1], F(vx), Rat(1, scale))
            /\ \A vy \in 0..(height - 1) :
                  mouse[2] = FAdd(y_off, F(vy * scale))
                      => Within(Ret[2], F(vy), Rat(1, scale))

C5_Witness ==
    /\ last.op = "mouse_position"
    /\ scale >= 2
    /\ centered # <<>>
    /\ \E vx \in 1..(width - 1), vy \in 0..(height - 1) :
          /\ mouse[1] = FAdd(screen_offset[1], F(vx * scale))
          /\ mouse[2] = FAdd(screen_offset[2], F(vy * scale))
          /\ Ret = <<F(vx), F(vy)>>

-----------------------------------------------------------------------------
(* C6 *)

\* C6: for s >= 1 and every reachable camera target,
\* pointer_position_world() is pointer_position_screen() plus
\* camera.target - (W/2, H/2); with the default camera the two coincide,
\* and 400x300 at scale 2 in 800x600 with the pointer at (400, 300) gives
\* (200, 150).
C6_PointerInversionWorld ==
    (last.op = "mouse_position_cam" /\ scale >= 1) =>
        LET screen == <<FDiv(FSub(mouse[1], screen_offset[1]), F(scale)),
                        FDiv(FSub(mouse[2], screen_offset[2]), F(scale))>>
        IN  /\ screen = mouse_position
            /\ Ret[1] = FAdd(screen[1], FSub(camera.target[1], Half(width)))
            /\ Ret[2] = FAdd(screen[2], FSub(camera.target[2], Half(height)))
            /\ camera.target = <<Half(width), Half(height)>> => Ret = screen
            /\ (width = 400 /\ height = 300 /\ scale = 2
                /\ screen_width = F(800) /\ screen_height = F(600)
                /\ mouse = <<F(400), F(300)>>
                /\ camera.target = <<F(200), F(150)>>)
                  => Ret = <<F(200), F(150)>>

C6_Witness ==
    /\ last.op = "mouse_position_cam"
    /\ scale >= 1
    /\ centered # <<>>
    /\ Len(deltas) > 0
    /\ Ret # mouse_position

-----------------------------------------------------------------------------
(* C7 *)

\* C7: after construct(W, H) and any sequence of public operations, window
\* resizes and pointer moves, camera.zoom is (2/W, 2/H) and width, height
\* are the W, H given at construction.
C7_ZoomAndExtentsFixed ==
    /\ camera.zoom = <<Rat(2, ctor[1]), Rat(2, ctor[2])>>
    /\ width = ctor[1]
    /\ height = ctor[2]

C7_Witness ==
    /\ Len(deltas) = MaxMoves
    /\ centered # <<>>
    /\ active_camera # <<>>
    /\ scale # auto_scale
    /\ last.op = "mouse_position_cam"
    /\ camera.zoom = <<Rat(2, 400), Rat(2, 300)>>

-----------------------------------------------------------------------------
(* C8 *)

\* C8: set_scale(k) stores k unclamped, scale() returns the stored value,
\* and only set_scale and set_scale_auto change it: every other operation,
\* a window resize and a pointer move leave the stored scale as it is.
C8_ScaleStoredVerbatim ==
    [][/\ last'.op = "set_scale" => scale' = last'.args[1]
       /\ last'.op = "scale" => last'.ret = <<scale>>
       /\ last'.op \notin {"set_scale", "set_scale_auto"} => scale' = scale]_vars

C8_Witness ==
    /\ last.op = "scale"
    /\ Ret = U8Max
    /\ Ret # auto_scale
    /\ ~FitsAt(Ret)

-----------------------------------------------------------------------------
(* C9 *)

-----------------------------------------------------------------------------
(* C10 *)

\* C10: begin_draw is the only render-area operation that writes the
\* active-camera slot; right after it the slot holds the area's camera as
\* of that call, rendering into the area's own target, and keeps it until
\* the caller restores the default camera or calls begin_draw again; blit
\* neither requires nor changes the slot.
C10_SlotWrittenOnlyByBeginDraw ==
    [][/\ last'.op = "set" =>
            /\ active_camera' = <<camera>>
            /\ active_camera'[1].render_target = <<render_target>>
       /\ active_camera' # active_camera
            => last'.op \in {"set", "set_default_camera"}
       /\ last'.op = "draw" => active_camera' = active_camera]_vars

C10_Witness ==
    /\ last.op = "draw"
    /\ active_camera # <<>>
    /\ active_camera[1].target # camera.target
    /\ active_camera[1].zoom = camera.zoom
    /\ active_camera[1].render_target = <<render_target>>

====
